---- MODULE Spec2Model ----
(***************************************************************************)
(* Model of elan.js: a handle on one dynamic stylesheet.  The state is the *)
(* sheet's ordered rule list; every prototype method that mutates it is    *)
(* one action.  The sheet itself (insertRule / deleteRule / removeRule and *)
(* the live cssRules list) is the CSSOM object the library calls into.     *)
(* Strings that the library takes apart or builds (property names,         *)
(* declaration text) are sequences of one-character strings; selectors are *)
(* opaque strings compared by equality.  Positions are 0-based as in the   *)
(* source; the rule at position i is rules[i + 1].                         *)
(***************************************************************************)
EXTENDS Integers, Sequences, FiniteSets

\* Largest rule list the model builds.
MaxRules == 3

(***************************** JavaScript values ****************************)
Num(n) == [type |-> "number", num |-> "int", v |-> n]
NaN == [type |-> "number", num |-> "NaN", v |-> 0]
Infinity == [type |-> "number", num |-> "Infinity", v |-> 0]
NegInfinity == [type |-> "number", num |-> "-Infinity", v |-> 0]
Undefined == [type |-> "undefined", num |-> "none", v |-> 0]
StringIndex == [type |-> "string", num |-> "none", v |-> 0]

typeof(x) == x.type
isNaN(x) == x.num = "NaN"
\* typeof index === "number" && !isNaN(index)
IsNumberIndex(index) == typeof(index) = "number" /\ ~isNaN(index)

Selectors == {".x", ".y"}
Indices == {Undefined, StringIndex, NaN, Infinity, NegInfinity} \cup {Num(n) : n \in -1..(MaxRules + 1)}
IntIndices == {Num(n) : n \in -1..(MaxRules + 1)}
\* How the host's insertRule treats an index that is not finite: WebIDL
\* converts it to 0, a range-checking implementation rejects it.
Hosts == {"webidl", "range"}
\* The hosts agree on every index that is finite.
HostsFor(index) == IF index.num \in {"Infinity", "-Infinity"} THEN Hosts ELSE {"webidl"}
\* What the sheet offers for adding a rule: insertRule, only the older
\* addRule, or neither.
SheetKinds == {"insertRule", "addRule", "none"}

(***************************** css arguments ********************************)
StrValue(s) == [type |-> "string", items |-> <<s>>]
ArrValue(ss) == [type |-> "array", items |-> ss]
NumValue == [type |-> "number", items |-> <<>>]
Prop(n, val) == [name |-> n, value |-> val]
ObjBlock(ps) == [type |-> "object", null |-> FALSE, props |-> ps]
NullBlock == [type |-> "object", null |-> TRUE, props |-> <<>>]
StrBlock == [type |-> "string", null |-> FALSE, props |-> <<>>]
Entry(sel, b) == [selector |-> sel, block |-> b]
ObjCss(es) == [type |-> "object", null |-> FALSE, entries |-> es]
NullCss == [type |-> "object", null |-> TRUE, entries |-> <<>>]
StrCss == [type |-> "string", null |-> FALSE, entries |-> <<>>]

BlockA == ObjBlock(<<Prop(<<"b", "S">>, StrValue(<<"r">>))>>)
BlockB == ObjBlock(<<Prop(<<"b">>, ArrValue(<<(<<"r">>), (<<"g">>)>>)), Prop(<<"c">>, NumValue)>>)
CssInputs ==
  { NullCss, StrCss,
    ObjCss(<<Entry(".x", BlockA)>>),
    ObjCss(<<Entry(".x", NullBlock)>>),
    ObjCss(<<Entry(".x", BlockA), Entry(".y", BlockB)>>),
    ObjCss(<<Entry(".y", BlockA), Entry(".x", StrBlock)>>),
    ObjCss(<<Entry(".x", StrBlock), Entry(".y", BlockA)>>) }
RuleTexts == { <<"b", "-", "s", ":", "r", ";">> }

(***************************** the sheet ************************************)
\* rules: the sheet's rule list; textNodes: the text children of the style
\* element; sheet: what the sheet offers; last, err, calls, reads, inserts:
\* the last method call, its error and the primitive calls it made.
VARIABLES rules, textNodes, sheet, last, err, calls, reads, inserts
vars == <<rules, textNodes, sheet, last, err, calls, reads, inserts>>

\* The running state of one method call: the rule list, the error being
\* thrown (if any) and the primitive calls made so far.
Start(rs, nodes, kind) ==
  [rules |-> rs, textNodes |-> nodes, sheet |-> kind, err |-> "none",
   calls |-> <<>>, reads |-> <<>>, inserts |-> <<>>]
Throw(s, e) == [s EXCEPT !.err = e]

\* The primitives take an unsigned long: a negative integer wraps to a
\* value at least 2^32 - |n|, above every length a rule list can have, so
\* "converted index > bound" is "n < 0 or n > bound".
UnsignedExceeds(n, bound) == n < 0 \/ n > bound
InsertAt(rs, pos, r) == SubSeq(rs, 1, pos) \o <<r>> \o SubSeq(rs, pos + 1, Len(rs))
DeleteAt(rs, pos) == SubSeq(rs, 1, pos) \o SubSeq(rs, pos + 2, Len(rs))

\* Insertion into the rule list by either primitive: the index (always a
\* number here) is converted to an unsigned long and must not exceed the
\* length.
InsertPrimitive(s, prim, rule, index, host) ==
  LET len == Len(s.rules)
      logged == [s EXCEPT !.inserts = Append(@, [prim |-> prim, index |-> index, len |-> len, rule |-> rule])]
      rejected == CASE index.num = "int" -> UnsignedExceeds(index.v, len)
                    [] index.num \in {"Infinity", "-Infinity"} -> host = "range"
                    [] OTHER -> FALSE
      pos == IF index.num = "int" THEN index.v ELSE 0
  IN IF rejected THEN Throw(logged, "IndexSizeError")
     ELSE [logged EXCEPT !.rules = InsertAt(s.rules, pos, rule)]

\* sheet.insertRule(selector + " {" + rules + "}", index)
insertRule(s, selector, text, index, host) ==
  InsertPrimitive(s, "insertRule", [selectorText |-> selector, style |-> text], index, host)

\* sheet.addRule(selector, rules, index), the older spelling
sheetAddRule(s, selector, text, index, host) ==
  InsertPrimitive(s, "addRule", [selectorText |-> selector, style |-> text], index, host)

\* HTMLStyleElement.appendChild(document.createTextNode(selector + "{" + rules + "}"))
appendTextNode(s, selector, text) ==
  [s EXCEPT !.textNodes = Append(@, <<selector, "{">> \o text \o <<"}">>)]

\* sheet.removeRule(index) / sheet.deleteRule(index), index an integer: two
\* spellings of the same removal.
deleteRule(s, index) ==
  LET len == Len(s.rules)
      logged == [s EXCEPT !.calls = Append(@, [index |-> index.v, rules |-> s.rules])]
  IN IF UnsignedExceeds(index.v, len - 1) THEN Throw(logged, "IndexSizeError")
     ELSE [logged EXCEPT !.rules = DeleteAt(s.rules, index.v)]

\* rules[i].selectorText on the live list: reading a missing item throws.
ReadRule(s, index) ==
  LET len == Len(s.rules)
      inb == index.num = "int" /\ index.v >= 0 /\ index.v < len
      logged == [s EXCEPT !.reads = Append(@, [index |-> index, len |-> len])]
  IN IF inb THEN logged ELSE Throw(logged, "TypeError")

(***************************** the library **********************************)
\* addRule without the NaN test: a NaN index reaches the primitive.
addRule_NoNaNTest(s, selector, text, index, host) ==
  LET idx == IF typeof(index) = "number" THEN index ELSE Num(Len(s.rules))
  IN IF s.sheet = "insertRule" THEN insertRule(s, selector, text, idx, host)
     ELSE IF s.sheet = "addRule" THEN sheetAddRule(s, selector, text, idx, host)
     ELSE appendTextNode(s, selector, text)

\* addRule that drops the index argument and always appends.
addRule_AlwaysAppend(s, selector, text, index, host) ==
  LET idx == Num(Len(s.rules))
  IN IF s.sheet = "insertRule" THEN insertRule(s, selector, text, idx, host)
     ELSE IF s.sheet = "addRule" THEN sheetAddRule(s, selector, text, idx, host)
     ELSE appendTextNode(s, selector, text)

addRule(s, selector, text, index, host) ==
  LET idx == IF IsNumberIndex(index) THEN index ELSE Num(Len(s.rules))
  IN IF s.sheet = "insertRule" THEN insertRule(s, selector, text, idx, host)
     ELSE IF s.sheet = "addRule" THEN sheetAddRule(s, selector, text, idx, host)
     ELSE appendTextNode(s, selector, text)

\* removeRule that catches the primitive's error.
removeRule_Swallow(s, index) ==
  LET s1 == deleteRule(s, index) IN IF s1.err # "none" THEN [s1 EXCEPT !.err = "none"] ELSE s1

removeRule(s, index) == deleteRule(s, index)

RECURSIVE ClearLoop(_, _)
ClearLoop(s, i) ==
  IF i < 0 \/ s.err # "none" THEN s
  ELSE ClearLoop(removeRule(s, Num(i)), i - 1)

\* clearRules that removes in ascending order.
RECURSIVE ClearLoop_Forward(_, _, _)
ClearLoop_Forward(s, i, l) ==
  IF i >= l \/ s.err # "none" THEN s
  ELSE ClearLoop_Forward(removeRule(s, Num(i)), i + 1, l)
clearRules_Forward(s) == ClearLoop_Forward(s, 0, Len(s.rules))

clearRules(s) == ClearLoop(s, Len(s.rules) - 1)

LowerSeq == << "a", "b", "c", "d", "e", "f", "g", "h", "i", "j", "k", "l", "m",
              "n", "o", "p", "q", "r", "s", "t", "u", "v", "w", "x", "y", "z" >>
UpperSeq == << "A", "B", "C", "D", "E", "F", "G", "H", "I", "J", "K", "L", "M",
              "N", "O", "P", "Q", "R", "S", "T", "U", "V", "W", "X", "Y", "Z" >>
\* [a-z] and [A-Z]
Lower == {LowerSeq[i] : i \in DOMAIN LowerSeq}
Upper == {UpperSeq[i] : i \in DOMAIN UpperSeq}
toLowerCase(c) ==
  IF c \in Upper THEN LowerSeq[CHOOSE i \in DOMAIN UpperSeq : UpperSeq[i] = c] ELSE c

\* prop.replace(/([a-z])([A-Z])/g, "$1-$2").toLowerCase()
RECURSIVE Kebab(_, _)
Kebab(name, i) ==
  IF i > Len(name) THEN <<>>
  ELSE IF i < Len(name) /\ name[i] \in Lower /\ name[i + 1] \in Upper
       THEN <<toLowerCase(name[i]), "-">> \o Kebab(name, i + 1)
       ELSE <<toLowerCase(name[i])>> \o Kebab(name, i + 1)

Segment(name, val) == name \o <<":">> \o val \o <<";">>

RECURSIVE ArraySegments(_, _, _)
ArraySegments(name, items, i) ==
  IF i > Len(items) THEN <<>>
  ELSE Segment(name, items[i]) \o ArraySegments(name, items, i + 1)

\* The text one property adds to the running declaration string.
PropText(p) ==
  LET name == Kebab(p.name, 1)
  IN CASE p.value.type = "string" -> Segment(name, p.value.items[1])
       [] p.value.type = "array" -> ArraySegments(name, p.value.items, 1)
       [] OTHER -> <<>>

RECURSIVE BlockText(_, _)
BlockText(props, i) ==
  IF i > Len(props) THEN <<>> ELSE PropText(props[i]) \o BlockText(props, i + 1)

\* The selector loop of addCSS; acc is the variable `rules`, set to ""
\* once before the loop.
RECURSIVE CssLoop(_, _, _, _, _, _)
CssLoop(s, entries, k, acc, index, host) ==
  IF k > Len(entries) \/ s.err # "none" THEN s
  ELSE LET e == entries[k] IN
       IF typeof(e.block) # "object" THEN Throw(s, "Error")
       ELSE LET acc2 == acc \o BlockText(e.block.props, 1)
            IN CssLoop(addRule(s, e.selector, acc2, index, host), entries, k + 1, acc2, index, host)

\* addCSS that moves the index on by one after each selector.
RECURSIVE CssLoop_Advancing(_, _, _, _, _, _)
CssLoop_Advancing(s, entries, k, acc, index, host) ==
  IF k > Len(entries) \/ s.err # "none" THEN s
  ELSE LET e == entries[k] IN
       IF typeof(e.block) # "object" THEN Throw(s, "Error")
       ELSE LET acc2 == acc \o BlockText(e.block.props, 1)
                idx == IF IsNumberIndex(index) /\ index.num = "int" THEN Num(index.v + k - 1) ELSE index
            IN CssLoop_Advancing(addRule(s, e.selector, acc2, idx, host), entries, k + 1, acc2, index, host)
addCSS_Advancing(s, css, index, host) ==
  IF typeof(css) # "object" THEN Throw(s, "Error")
  ELSE CssLoop_Advancing(s, css.entries, 1, <<>>, index, host)

addCSS(s, css, index, host) ==
  IF typeof(css) # "object" THEN Throw(s, "Error")
  ELSE CssLoop(s, css.entries, 1, <<>>, index, host)

\* The forward scan of removeCSS; l is the length taken before the loop.
RECURSIVE ScanLoop(_, _, _, _)
ScanLoop(s, selector, i, l) ==
  IF i >= l \/ s.err # "none" THEN s
  ELSE LET s1 == ReadRule(s, Num(i)) IN
       IF s1.err # "none" THEN s1
       ELSE IF s.rules[i + 1].selectorText = selector
            THEN ScanLoop(removeRule(s1, Num(i)), selector, i + 1, l)
            ELSE ScanLoop(s1, selector, i + 1, l)

\* removeCSS that does not compare the selector at a given index.
removeCSS_NoCompare(s, selector, index) ==
  IF IsNumberIndex(index)
  THEN LET s1 == ReadRule(s, index) IN
       IF s1.err # "none" THEN s1 ELSE removeRule(s1, index)
  ELSE ScanLoop(s, selector, 0, Len(s.rules))

removeCSS(s, selector, index) ==
  IF IsNumberIndex(index)
  THEN LET s1 == ReadRule(s, index) IN
       IF s1.err # "none" THEN s1
       ELSE IF s.rules[index.v + 1].selectorText = selector
            THEN removeRule(s1, index)
            ELSE s1
  ELSE ScanLoop(s, selector, 0, Len(s.rules))

(***************************** actions **************************************)
Call(name, selector, text, index, css) ==
  [name |-> name, pre |-> rules, preText |-> textNodes, selector |-> selector, text |-> text, index |-> index, css |-> css]

Finish(s, call) ==
  /\ rules' = s.rules
  /\ textNodes' = s.textNodes
  /\ sheet' = sheet
  /\ err' = s.err
  /\ calls' = s.calls
  /\ reads' = s.reads
  /\ inserts' = s.inserts
  /\ last' = call

Init ==
  /\ rules = <<>>
  /\ textNodes = << <<>> >>
  /\ sheet \in SheetKinds
  /\ err = "none"
  /\ calls = <<>>
  /\ reads = <<>>
  /\ inserts = <<>>
  /\ last = [name |-> "new", pre |-> <<>>, preText |-> <<>>, selector |-> "", text |-> <<>>, index |-> Undefined, css |-> NullCss]

AddRule ==
  /\ Len(rules) < MaxRules
  /\ Len(textNodes) <= MaxRules
  /\ \E selector \in Selectors, text \in RuleTexts, index \in Indices :
     \E host \in HostsFor(index) :
       Finish(addRule(Start(rules, textNodes, sheet), selector, text, index, host),
              Call("addRule", selector, text, index, NullCss))

RemoveRule ==
  \E index \in IntIndices :
    Finish(removeRule(Start(rules, textNodes, sheet), index), Call("removeRule", "", <<>>, index, NullCss))

ClearRules ==
  Finish(clearRules(Start(rules, textNodes, sheet)), Call("clearRules", "", <<>>, Undefined, NullCss))

AddCSS ==
  \E css \in CssInputs, index \in Indices :
   \E host \in HostsFor(index) :
    /\ Len(rules) + Len(css.entries) <= MaxRules
    /\ Len(textNodes) + Len(css.entries) <= MaxRules + 1
    /\ Finish(addCSS(Start(rules, textNodes, sheet), css, index, host), Call("addCSS", "", <<>>, index, css))

RemoveCSS ==
  \E selector \in Selectors, index \in Indices :
    Finish(removeCSS(Start(rules, textNodes, sheet), selector, index), Call("removeCSS", selector, <<>>, index, NullCss))

Next == AddRule \/ RemoveRule \/ ClearRules \/ AddCSS \/ RemoveCSS

Spec == Init /\ [][Next]_vars

TypeOK ==
  /\ Len(rules) <= MaxRules
  /\ Len(textNodes) <= MaxRules + 1
  /\ sheet \in SheetKinds
  /\ err \in {"none", "Error", "TypeError", "IndexSizeError"}
(***************************** properties ***********************************)
Keep(rs, selector) == SelectSeq(rs, LAMBDA r : r.selectorText # selector)
NewRule == [selectorText |-> last.selector, style |-> last.text]
IsInt(index) == index.num = "int"
\* An index addRule can insert at: omitted/invalid (append) or 0..n.
Insertable(index, n) == ~IsNumberIndex(index) \/ (IsInt(index) /\ index.v >= 0 /\ index.v <= n)
NotMapping(x) == typeof(x) # "object" \/ x.null
BadBlocks(entries) == {k \in 1..Len(entries) : NotMapping(entries[k].block)}
FirstBad(entries) == CHOOSE k \in BadBlocks(entries) : \A j \in BadBlocks(entries) : k <= j
OnScan == last.name = "removeCSS" /\ ~IsNumberIndex(last.index)
HasPrimitive == sheet \in {"insertRule", "addRule"}
NewNode == <<last.selector, "{">> \o last.text \o <<"}">>
\* The text nodes the last call appended, and the declaration text in one.
NewNodes == SubSeq(textNodes, Len(last.preText) + 1, Len(textNodes))
NodeStyle(node) == SubSeq(node, 3, Len(node) - 1)
\* What the last call added, in call order, by whichever path the sheet has.
AddedCount == Len(inserts) + Len(NewNodes)
AddedSelector(k) == IF HasPrimitive THEN inserts[k].rule.selectorText ELSE NewNodes[k][1]
AddedStyle(k) == IF HasPrimitive THEN inserts[k].rule.style ELSE NodeStyle(NewNodes[k])

\* C1: removeCSS(s) without an index leaves exactly the rules whose selector
\* text differs from s, in their original order.
C1_RemoveCSSRemovesEveryMatch ==
  OnScan => rules = Keep(last.pre, last.selector)

\* C2: every rule addCSS adds carries the declaration text built from its own
\* selector's property map only.
C2_DeclarationTextIsOwn ==
  (last.name = "addCSS" /\ typeof(last.css) = "object") =>
    \A k \in 1..AddedCount :
      AddedStyle(k) = BlockText(last.css.entries[k].block.props, 1)

\* C3: clearRules completes without error, leaves an empty rule list, and
\* every removeRule call it makes is within the bounds of the list at the call.
C3_ClearRulesEmpties ==
  last.name = "clearRules" =>
    /\ err = "none"
    /\ rules = <<>>
    /\ Len(calls) = Len(last.pre)
    /\ \A k \in 1..Len(calls) : calls[k].index >= 0 /\ calls[k].index < Len(calls[k].rules)
C3_Witness ==
  /\ last.name = "clearRules"
  /\ Len(last.pre) = MaxRules
  /\ Len(calls) = MaxRules
  /\ rules = <<>>

\* C4 as stated: addRule hands the current length to the insertion primitive
\* (appends) when index is omitted, not a number, NaN, or not finite.
C4_NonFiniteAppends ==
  (last.name = "addRule" /\ HasPrimitive /\ (~IsNumberIndex(last.index) \/ ~IsInt(last.index))) =>
    /\ Len(inserts) = 1
    /\ inserts[1].index = Num(Len(last.pre))
\* C4 amended: addRule hands the current length to the insertion primitive and
\* appends when index is omitted, not a number, or NaN; Infinity and -Infinity
\* are numbers that are not NaN and are handed to the primitive unchanged.
\* A sheet with no insertion primitive is handed no index at all.
C4_InvalidIndexAppends ==
  last.name = "addRule" =>
    /\ HasPrimitive =>
         /\ Len(inserts) = 1
         /\ inserts[1].prim = sheet
         /\ textNodes = last.preText
         /\ ~IsNumberIndex(last.index) =>
              /\ inserts[1].index = Num(Len(last.pre))
              /\ err = "none"
              /\ rules = Append(last.pre, NewRule)
         /\ IsNumberIndex(last.index) => inserts[1].index = last.index
    /\ ~HasPrimitive => inserts = <<>>
C4_Witness ==
  /\ last.name = "addRule"
  /\ last.index = NaN
  /\ Len(last.pre) = 2
  /\ Len(inserts) = 1
  /\ inserts[1].index = Num(2)
  /\ rules = Append(last.pre, NewRule)

\* C5 as stated: addRule at an index i in 0..n gives a list of length n+1 with
\* the new rule at i, positions below i unchanged, positions from i on
\* shifted by one.
C5_InsertShiftsOnAnySheet ==
  (last.name = "addRule" /\ IsInt(last.index) /\ last.index.v >= 0 /\ last.index.v <= Len(last.pre)) =>
    LET i == last.index.v
        n == Len(last.pre)
    IN /\ err = "none"
       /\ Len(rules) = n + 1
       /\ rules[i + 1] = NewRule
       /\ \A j \in 0..(i - 1) : rules[j + 1] = last.pre[j + 1]
       /\ \A j \in i..(n - 1) : rules[j + 2] = last.pre[j + 1]
\* C5 amended: on a sheet that offers insertRule or addRule, addRule at an
\* index i in 0..n gives a list of length n+1 with the new rule at i, positions
\* below i unchanged and positions from i on shifted by one; on a sheet with
\* neither, the rule list is unchanged and the rule's text is appended to the
\* style element as a text node.
C5_InsertShifts ==
  (last.name = "addRule" /\ IsInt(last.index) /\ last.index.v >= 0 /\ last.index.v <= Len(last.pre)) =>
    LET i == last.index.v
        n == Len(last.pre)
    IN /\ err = "none"
       /\ HasPrimitive =>
            /\ Len(rules) = n + 1
            /\ rules[i + 1] = NewRule
            /\ \A j \in 0..(i - 1) : rules[j + 1] = last.pre[j + 1]
            /\ \A j \in i..(n - 1) : rules[j + 2] = last.pre[j + 1]
            /\ textNodes = last.preText
       /\ ~HasPrimitive =>
            /\ rules = last.pre
            /\ textNodes = Append(last.preText, NewNode)
C5_Witness ==
  /\ last.name = "addRule"
  /\ last.index = Num(1)
  /\ Len(last.pre) = 2
  /\ last.pre[1] # last.pre[2]
  /\ rules = <<last.pre[1], NewRule, last.pre[2]>>

\* C6: addCSS raises an error when css is not a mapping, or when the k-th
\* selector's value is not a mapping; in the second case exactly the rules of
\* the first k-1 selectors have been added.
C6_InvalidInputRaises ==
  (last.name = "addCSS" /\ Insertable(last.index, Len(last.pre))) =>
    /\ NotMapping(last.css) => (err = "Error" /\ rules = last.pre /\ textNodes = last.preText)
    /\ (~NotMapping(last.css) /\ BadBlocks(last.css.entries) # {}) =>
         LET k == FirstBad(last.css.entries) IN
           /\ err = "Error"
           /\ AddedCount = k - 1
           /\ \A j \in 1..(k - 1) : AddedSelector(j) = last.css.entries[j].selector

\* C7: removeCSS(selector, index) with a numeric index removes the rule at
\* index exactly when its selector text equals selector; otherwise the list
\* is unchanged and no error is raised.
C7_RemoveAtIndexIffMatch ==
  (last.name = "removeCSS" /\ IsInt(last.index) /\ last.index.v >= 0 /\ last.index.v < Len(last.pre)) =>
    /\ err = "none"
    /\ rules = IF last.pre[last.index.v + 1].selectorText = last.selector
               THEN DeleteAt(last.pre, last.index.v)
               ELSE last.pre
C7_Witness ==
  /\ last.name = "removeCSS"
  /\ last.index = Num(1)
  /\ Len(last.pre) = 2
  /\ last.pre[2].selectorText # last.selector
  /\ last.pre[1].selectorText = last.selector
  /\ rules = last.pre
  /\ err = "none"

\* C8: a removeRule call with an index outside the rule list, made directly
\* or from inside removeCSS or clearRules, ends the method with the platform's
\* error and leaves the rule list as it was at that call.
C8_OutOfBoundsSurfaces ==
  \A k \in 1..Len(calls) :
    (calls[k].index < 0 \/ calls[k].index >= Len(calls[k].rules)) =>
      /\ k = Len(calls)
      /\ err = "IndexSizeError"
      /\ rules = calls[k].rules
C8_Witness ==
  /\ last.name = "removeRule"
  /\ last.index = Num(2)
  /\ Len(last.pre) = 2
  /\ err = "IndexSizeError"
  /\ rules = last.pre

\* C9 as stated: addCSS with several selectors and an explicit valid index i
\* inserts every rule at i: the added rules sit at i, i+1, ... in reverse
\* iteration order and the rules formerly at positions >= i follow in order.
C9_SameIndexReversesOnAnySheet ==
  (/\ last.name = "addCSS"
   /\ ~NotMapping(last.css)
   /\ Len(last.css.entries) >= 2
   /\ BadBlocks(last.css.entries) = {}
   /\ IsInt(last.index) /\ last.index.v >= 0 /\ last.index.v <= Len(last.pre)) =>
    LET i == last.index.v
        n == Len(last.pre)
        m == Len(last.css.entries)
    IN /\ err = "none"
       /\ Len(rules) = n + m
       /\ \A j \in 1..i : rules[j] = last.pre[j]
       /\ \A k \in 1..m : rules[i + k].selectorText = last.css.entries[m - k + 1].selector
       /\ \A j \in (i + 1)..n : rules[j + m] = last.pre[j]
\* C9 amended: on a sheet that offers insertRule or addRule, addCSS with
\* several selectors and an explicit valid index i hands every selector's rule
\* to the primitive with that same index: the added rules sit at i, i+1, ... in
\* reverse iteration order and the rules formerly at positions >= i follow in
\* order; on a sheet with neither, the rule list is unchanged and the rules'
\* texts are appended to the style element in iteration order.
C9_SameIndexReverses ==
  (/\ last.name = "addCSS"
   /\ ~NotMapping(last.css)
   /\ Len(last.css.entries) >= 2
   /\ BadBlocks(last.css.entries) = {}
   /\ IsInt(last.index) /\ last.index.v >= 0 /\ last.index.v <= Len(last.pre)) =>
    LET i == last.index.v
        n == Len(last.pre)
        m == Len(last.css.entries)
    IN /\ err = "none"
       /\ HasPrimitive =>
            /\ Len(inserts) = m
            /\ \A k \in 1..m : inserts[k].index = last.index
            /\ Len(rules) = n + m
            /\ \A j \in 1..i : rules[j] = last.pre[j]
            /\ \A k \in 1..m : /\ rules[i + k] = inserts[m - k + 1].rule
                               /\ rules[i + k].selectorText = last.css.entries[m - k + 1].selector
            /\ \A j \in (i + 1)..n : rules[j + m] = last.pre[j]
       /\ ~HasPrimitive =>
            /\ rules = last.pre
            /\ Len(NewNodes) = m
            /\ \A k \in 1..m : NewNodes[k][1] = last.css.entries[k].selector
C9_Witness ==
  /\ last.name = "addCSS"
  /\ Len(last.css.entries) = 2
  /\ last.index = Num(0)
  /\ Len(last.pre) = 1
  /\ err = "none"
  /\ Len(rules) = 3
  /\ rules[1].selectorText = last.css.entries[2].selector
  /\ rules[2].selectorText = last.css.entries[1].selector
  /\ rules[3] = last.pre[1]

\* C10: the forward scan of removeCSS only reads positions inside the rule
\* list as it is at the read, and finishes without error.
C10_ScanStaysInBounds ==
  OnScan =>
    /\ err = "none"
    /\ \A k \in 1..Len(reads) : reads[k].index.v < reads[k].len
====
